---- MODULE Spec2Model ----
(***************************************************************************)
(* Model of pkg/sql/colexec/simple_project.go: the simple projection       *)
(* operator (simpleProjectOp) and its batch view (projectingBatch).        *)
(*                                                                         *)
(* Objects are modelled by identity:                                       *)
(*   - an upstream coldata.Batch is a positive integer, the index of its   *)
(*     entry in inputBatches, whose value is the batch's current width;    *)
(*     column j of batch b is the vector <<b, j>>;                         *)
(*   - a *projectingBatch is a positive integer, the index of its record   *)
(*     in views (allocation order);                                        *)
(*   - a []uint32 slice is the name of its backing array in arrays.        *)
(* Column indices are 0-based as in the source; TLA+ sequences are         *)
(* 1-based, so element i of a slice s is s[i + 1].                         *)
(***************************************************************************)
EXTENDS Integers, Sequences, FiniteSets, TLC

\* ------------------------------------------------------------------ bounds
\* numInputCols ranges over 0..MaxCols.
MaxCols == 2
\* The caller's projection has at most MaxProjLen entries.
MaxProjLen == 2
\* Distinct batch objects the upstream hands out under Spec.
MaxBatches == 2
\* AppendCol calls over the whole run under Spec.
MaxAppends == 2
\* Distinct batch objects the upstream hands out under SpecLog.
MaxLogBatches == 257
\* Under SpecLog the upstream re-returns only its ReuseWindow newest batches.
ReuseWindow == 2
\* Distinct batch objects the upstream hands out under SpecResize.
MaxResizeBatches == 1

\* ------------------------------------------------------- program constants
\* numBatchesLoggingThreshold: 128 in NewSimpleProjectOp.
InitialLoggingThreshold == 128
VARIABLES
    numInputCols,      \* argument of NewSimpleProjectOp
    arrays,            \* backing arrays of the []uint32 slices: the caller's and the operator's
    verbose,           \* log.V(1)
    op,                \* the Operator NewSimpleProjectOp returned
    d,                 \* the simpleProjectOp struct
    views,             \* the projectingBatch objects allocated so far
    inputBatches,      \* the upstream's batch objects: width of each
    inputInitialized,  \* d.input.Init() has been called
    ret,               \* the *projectingBatch the last Next returned (0: none yet)
    lastBatch,         \* the batch d.input.Next returned in the last Next (0: none yet)
    failure,           \* the panic that ended the pipeline ("none": still running)
    logged,            \* the sizes reported by log.Infof, in order
    builtP,            \* history: the caller's projection as NewSimpleProjectOp read it
    history,           \* history: <<batch, view>> of every completed Next
    nAppendCol,        \* history: AppendCol calls made on each view
    inputExhausted,    \* the upstream is out of rows: the batch its Next returns has length 0
    lastZeroLength,    \* Length() of the view the last Next returned is 0 (its batch's length)
    inputNextCalls,    \* history: calls of d.input.Next made by the last Next
    widthDecreased     \* history: some upstream batch has lost columns

vars == <<numInputCols, arrays, verbose, op, d, views, inputBatches, inputInitialized,
          ret, lastBatch, failure, logged, builtP, history, nAppendCol,
          inputExhausted, lastZeroLength, inputNextCalls, widthDecreased>>

\* ----------------------------------------------------------------- helpers
Nil == 0

\* The struct before NewSimpleProjectOp has allocated it (and when it never does).
NoSimpleProjectOp ==
    [projection |-> "nil", batches |-> <<>>, numBatchesLoggingThreshold |-> 0]

\* The contents of a []uint32 slice.
Slice(s) == IF s = "nil" THEN <<>> ELSE arrays[s]

RECURSIVE SumWidths(_)
SumWidths(ws) == IF ws = <<>> THEN 0 ELSE Head(ws) + SumWidths(Tail(ws))

\* Columns appended to upstream batches so far (every batch starts numInputCols wide).
TotalAppended == SumWidths(inputBatches) - Len(inputBatches) * numInputCols

\* All sequences over S of length at most n.
RECURSIVE SeqsUpTo(_, _)
SeqsUpTo(S, n) ==
    IF n = 0 THEN {<<>>}
    ELSE LET shorter == SeqsUpTo(S, n - 1)
         IN shorter \cup {Append(s, x) : s \in {t \in shorter : Len(t) = n - 1}, x \in S}

\* ---------------------------------------------------------- projectingBatch
\* What indexing past a batch's columns yields instead of a vector: Go panics.
IndexOutOfRange == <<Nil, -1>>

\* coldata.Batch.ColVec(j) of upstream batch b.
BatchColVec(b, j) ==
    IF b # Nil /\ j >= 0 /\ j < inputBatches[b] THEN <<b, j>> ELSE IndexOutOfRange

\* Mutant of newProjectionBatch: the new view takes the projection list of the
\* view returned last, as it stands, when there is one.
newProjectionBatchFromLastView(projection) ==
    [Batch |-> Nil,
     projection |-> IF ret # Nil THEN views[ret].projection ELSE projection]

\* newProjectionBatch: a view with no batch and its own copy of projection.
newProjectionBatch(projection) ==
    [Batch |-> Nil, projection |-> [j \in 1..Len(projection) |-> projection[j]]]

\* Mutant of ColVec: the index goes to the wrapped batch unprojected.
ColVecUnprojected(v, i) == BatchColVec(views[v].Batch, i)

\* (b *projectingBatch) ColVec(i)
ColVec(v, i) == BatchColVec(views[v].Batch, views[v].projection[i + 1])

\* Mutant of Width: the embedded Batch's Width, as if the method were not overridden.
WidthOfWrappedBatch(v) == inputBatches[views[v].Batch]

\* (b *projectingBatch) Width()
Width(v) == Len(views[v].projection)

\* Mutant of ColVecsOutcome: the call returns its nil slice.
ColVecsReturnsNil == "returned nil"

\* What ColVecs() ends in.
ColVecsOutcome == "VectorizedInternalPanic"

\* Mutant of AppendedIndex: the width itself, the "-1" forgotten.
AppendedIndexIsWidth(batchWidth) == batchWidth

\* The index AppendCol adds to the view's projection: uint32(b.Batch.Width())-1,
\* with the wrapped batch's width taken after its own AppendCol. That width is
\* at least 1 and far below 2^32, so the uint32 arithmetic never wraps.
AppendedIndex(batchWidth) == batchWidth - 1

\* -------------------------------------------------------- simpleProjectOp
\* Mutant of RedundantLoop: the flag is assigned the comparison at each index, so
\* the last index alone decides.
RECURSIVE RedundantLastWins(_, _, _)
RedundantLastWins(projection, i, projectionIsRedundant) ==
    IF i >= Len(projection) THEN projectionIsRedundant
    ELSE RedundantLastWins(projection, i + 1, projection[i + 1] = i)

\* The loop of NewSimpleProjectOp over projection, from index i with flag so far.
RECURSIVE RedundantLoop(_, _, _)
RedundantLoop(projection, i, projectionIsRedundant) ==
    IF i >= Len(projection) THEN projectionIsRedundant
    ELSE RedundantLoop(projection, i + 1,
                       IF projection[i + 1] # i THEN FALSE
                       ELSE projectionIsRedundant)

\* Mutant of AllocProjection: s.projection = projection, the caller's slice kept.
AliasProjection(src) == [array |-> src, contents |-> arrays[src]]

\* make([]uint32, len(projection)) and copy(s.projection, projection): the slice
\* the operator keeps, and what its backing array holds.
AllocProjection(src) ==
    [array |-> "op", contents |-> [j \in 1..Len(arrays[src]) |-> arrays[src][j]]]

\* Mutant of Found: the lookup never finds the batch.
NeverFound(batches, batch) == FALSE

\* projBatch, found := d.batches[batch]
Found(batches, batch) == batch \in DOMAIN batches

\* Mutant of CacheInsert: the new entry replaces the map's other entries.
CacheInsertEvicting(batches, batch, projBatch) == [k \in {batch} |-> projBatch]

\* d.batches[batch] = projBatch
CacheInsert(batches, batch, projBatch) ==
    [k \in DOMAIN batches \cup {batch} |-> IF k = batch THEN projBatch ELSE batches[k]]

\* Mutant of Repoint: the view is set up afresh on every Next, its projection
\* taken from the operator again.
RepointFresh(vs, projBatch, batch) ==
    [vs EXCEPT ![projBatch] = [Batch |-> batch, projection |-> Slice(d.projection)]]

\* Mutant of Repoint: Next stops short of the assignment on a zero-length batch.
RepointUnlessExhausted(vs, projBatch, batch) ==
    IF inputExhausted THEN vs ELSE [vs EXCEPT ![projBatch].Batch = batch]

\* Mutant of Repoint: the assignment is missing.
RepointSkipped(vs, projBatch, batch) == vs

\* projBatch.Batch = batch, in the views vs
Repoint(vs, projBatch, batch) == [vs EXCEPT ![projBatch].Batch = batch]

\* batch := d.input.Next(ctx): the calls of the upstream's Next in one Next.
InputNextCalls == 1

\* len(d.batches) == d.numBatchesLoggingThreshold
AtLoggingThreshold(size, threshold) == size = threshold

\* Mutant of DoubleThreshold: the doubling sits inside the log.V(1) branch.
DoubleThresholdIfVerbose(threshold) == IF verbose THEN threshold * 2 ELSE threshold

\* Mutant of DoubleThreshold: the threshold is left as it is.
KeepThreshold(threshold) == threshold

\* d.numBatchesLoggingThreshold * 2
DoubleThreshold(threshold) == threshold * 2

\* ------------------------------------------------------------------- Init
ProjectionBuffers(n) == SeqsUpTo(0..n, MaxProjLen)

Init ==
    /\ numInputCols \in 0..MaxCols
    /\ \E buf \in ProjectionBuffers(numInputCols) : arrays = [caller |-> buf, op |-> <<>>]
    /\ verbose \in BOOLEAN
    /\ op = "unbuilt"
    /\ d = NoSimpleProjectOp
    /\ views = <<>>
    /\ inputBatches = <<>>
    /\ inputInitialized = FALSE
    /\ ret = Nil
    /\ lastBatch = Nil
    /\ failure = "none"
    /\ logged = <<>>
    /\ builtP = <<>>
    /\ history = {}
    /\ nAppendCol = <<>>
    /\ inputExhausted = FALSE
    /\ lastZeroLength = FALSE
    /\ inputNextCalls = 0
    /\ widthDecreased = FALSE

\* ---------------------------------------------------------------- actions
\* NewSimpleProjectOp(input, numInputCols, projection), projection = the caller's slice.
NewSimpleProjectOp ==
    /\ op = "unbuilt"
    /\ builtP' = arrays["caller"]
    /\ IF numInputCols = Len(arrays["caller"]) /\ RedundantLoop(arrays["caller"], 0, TRUE)
       THEN /\ op' = "input"
            /\ UNCHANGED <<d, arrays>>
       ELSE LET s == AllocProjection("caller")
            IN /\ op' = "simpleProjectOp"
               /\ arrays' = [arrays EXCEPT ![s.array] = s.contents]
               /\ d' = [projection |-> s.array,
                        batches |-> <<>>,
                        numBatchesLoggingThreshold |-> InitialLoggingThreshold]
    /\ UNCHANGED <<numInputCols, verbose, views, inputBatches, inputInitialized, ret,
                   lastBatch, failure, logged, history, nAppendCol>>
    /\ UNCHANGED <<inputExhausted, lastZeroLength, inputNextCalls, widthDecreased>>

\* The caller reuses the buffer it passed to NewSimpleProjectOp: it overwrites
\* element i (0-based) with x. One element of the buffer is overwritten per run.
CallerOverwrite(i, x) ==
    /\ op = "simpleProjectOp"
    /\ failure = "none"
    /\ arrays["caller"] = builtP
    /\ i \in 0..(Len(arrays["caller"]) - 1)
    /\ x \in 0..numInputCols
    /\ x # arrays["caller"][i + 1]
    /\ arrays' = [arrays EXCEPT !["caller"][i + 1] = x]
    /\ UNCHANGED <<numInputCols, verbose, op, d, views, inputBatches, inputInitialized,
                   ret, lastBatch, failure, logged, builtP, history, nAppendCol>>
    /\ UNCHANGED <<inputExhausted, lastZeroLength, inputNextCalls, widthDecreased>>

\* (d *simpleProjectOp) Init()
OpInit ==
    /\ op = "simpleProjectOp"
    /\ failure = "none"
    /\ inputInitialized' = TRUE
    /\ UNCHANGED <<numInputCols, arrays, verbose, op, d, views, inputBatches, ret,
                   lastBatch, failure, logged, builtP, history, nAppendCol>>
    /\ UNCHANGED <<inputExhausted, lastZeroLength, inputNextCalls, widthDecreased>>

\* (d *simpleProjectOp) Next(ctx), d.input.Next(ctx) returning batch: one of the
\* upstream's batch objects, or a new one (the next identity), numInputCols wide.
OpNext(batch) ==
    /\ op = "simpleProjectOp"
    /\ failure = "none"
    /\ batch \in 1..(Len(inputBatches) + 1)
    /\ inputBatches' = IF batch > Len(inputBatches)
                       THEN Append(inputBatches, numInputCols)
                       ELSE inputBatches
    /\ LET found == Found(d.batches, batch)
           projBatch == IF found THEN d.batches[batch] ELSE Len(views) + 1
           allocated == IF found THEN views
                        ELSE Append(views, newProjectionBatch(Slice(d.projection)))
           batches1 == IF found THEN d.batches ELSE CacheInsert(d.batches, batch, projBatch)
           atThreshold == /\ ~found
                          /\ AtLoggingThreshold(Cardinality(DOMAIN batches1),
                                                d.numBatchesLoggingThreshold)
       IN /\ views' = Repoint(allocated, projBatch, batch)
          /\ d' = [d EXCEPT !.batches = batches1,
                            !.numBatchesLoggingThreshold =
                                IF atThreshold THEN DoubleThreshold(@) ELSE @]
          /\ logged' = IF atThreshold /\ verbose
                       THEN Append(logged, Cardinality(DOMAIN batches1))
                       ELSE logged
          /\ nAppendCol' = IF found THEN nAppendCol ELSE Append(nAppendCol, 0)
          /\ ret' = projBatch
          /\ history' = history \cup {<<batch, projBatch>>}
    /\ lastBatch' = batch
    /\ lastZeroLength' = inputExhausted
    /\ inputNextCalls' = InputNextCalls
    /\ UNCHANGED <<numInputCols, arrays, verbose, op, inputInitialized, failure, builtP>>
    /\ UNCHANGED <<inputExhausted, widthDecreased>>

\* (b *projectingBatch) AppendCol(t) on view v.
AppendCol(v) ==
    /\ op = "simpleProjectOp"
    /\ failure = "none"
    /\ v \in 1..Len(views)
    /\ TotalAppended < MaxAppends
    /\ LET b == views[v].Batch
           newWidth == inputBatches[b] + 1
       IN /\ inputBatches' = [inputBatches EXCEPT ![b] = newWidth]
          /\ views' = [views EXCEPT ![v].projection = Append(@, AppendedIndex(newWidth))]
    /\ nAppendCol' = [nAppendCol EXCEPT ![v] = @ + 1]
    /\ UNCHANGED <<numInputCols, arrays, verbose, op, d, inputInitialized, ret, lastBatch,
                   failure, logged, builtP, history>>
    /\ UNCHANGED <<inputExhausted, lastZeroLength, inputNextCalls, widthDecreased>>

\* (b *projectingBatch) ColVecs() on view v: panics, and the panic ends the pipeline.
ColVecs(v) ==
    /\ op = "simpleProjectOp"
    /\ failure = "none"
    /\ v \in 1..Len(views)
    /\ failure' = ColVecsOutcome
    /\ UNCHANGED <<numInputCols, arrays, verbose, op, d, views, inputBatches,
                   inputInitialized, ret, lastBatch, logged, builtP, history, nAppendCol>>
    /\ UNCHANGED <<inputExhausted, lastZeroLength, inputNextCalls, widthDecreased>>

\* The upstream changes the columns of one of its batch objects between two
\* calls of its Next: batch b gains or loses a column and is w columns wide,
\* at most MaxAppends more than numInputCols.
UpstreamResize(b, w) ==
    /\ op = "simpleProjectOp"
    /\ failure = "none"
    /\ b \in 1..Len(inputBatches)
    /\ w \in {inputBatches[b] - 1, inputBatches[b] + 1}
    /\ w >= 0
    /\ w <= numInputCols + MaxAppends
    /\ inputBatches' = [inputBatches EXCEPT ![b] = w]
    /\ widthDecreased' = (widthDecreased \/ w < inputBatches[b])
    /\ UNCHANGED <<numInputCols, arrays, verbose, op, d, views, inputInitialized, ret,
                   lastBatch, failure, logged, builtP, history, nAppendCol>>
    /\ UNCHANGED <<inputExhausted, lastZeroLength, inputNextCalls>>

\* The upstream runs out of rows: from now on the batch its Next returns has
\* length 0, the terminal signal of the pipeline.
UpstreamExhaust ==
    /\ op = "simpleProjectOp"
    /\ failure = "none"
    /\ ~inputExhausted
    /\ inputExhausted' = TRUE
    /\ UNCHANGED <<numInputCols, arrays, verbose, op, d, views, inputBatches,
                   inputInitialized, ret, lastBatch, failure, logged, builtP, history,
                   nAppendCol>>
    /\ UNCHANGED <<lastZeroLength, inputNextCalls, widthDecreased>>

\* ---------------------------------------------------------- specifications
Next ==
    \/ NewSimpleProjectOp
    \/ \E i \in 0..(MaxProjLen - 1), x \in 0..MaxCols : CallerOverwrite(i, x)
    \/ OpInit
    \/ \E batch \in 1..MaxBatches : OpNext(batch)
    \/ \E v \in 1..MaxBatches : AppendCol(v)
    \/ \E v \in 1..MaxBatches : ColVecs(v)

Spec == Init /\ [][Next]_vars

\* The same operator followed far enough for the cache to reach its logging
\* thresholds: one projection column, an upstream that hands out up to
\* MaxLogBatches batch objects and re-returns only its newest ones, and no
\* caller of AppendCol or ColVecs.
InitLog ==
    /\ Init
    /\ numInputCols = MaxCols
    /\ Len(arrays["caller"]) = 1

LogUpstream ==
    {b \in 1..MaxLogBatches :
        /\ b <= Len(inputBatches) + 1
        /\ b + ReuseWindow > Len(inputBatches)}

NextLog ==
    \/ NewSimpleProjectOp
    \/ OpInit
    \/ \E batch \in LogUpstream : OpNext(batch)

SpecLog == InitLog /\ [][NextLog]_vars

\* The operator over an upstream that adds columns to and drops columns from
\* its batch objects between pulls, with AppendCol called on the views; one
\* projection column, valid or not; at most MaxResizeBatches batch objects and
\* MaxAppends AppendCol calls.
InitResize ==
    /\ Init
    /\ numInputCols = MaxCols
    /\ Len(arrays["caller"]) = 1
    /\ ~verbose

NextResize ==
    \/ NewSimpleProjectOp
    \/ \E batch \in 1..MaxResizeBatches : OpNext(batch)
    \/ \E v \in 1..MaxResizeBatches : AppendCol(v) /\ SumWidths(nAppendCol) < MaxAppends
    \/ \E b \in 1..MaxResizeBatches, w \in 0..(MaxCols + MaxAppends) : UpstreamResize(b, w)

SpecResize == InitResize /\ [][NextResize]_vars

\* The operator pulled past the end of its upstream: Init, Next and AppendCol,
\* and an upstream that runs out of rows at some point.
NextTerminal ==
    \/ NewSimpleProjectOp
    \/ OpInit
    \/ \E batch \in 1..MaxBatches : OpNext(batch)
    \/ \E v \in 1..MaxBatches : AppendCol(v)
    \/ UpstreamExhaust

SpecTerminal == Init /\ [][NextTerminal]_vars

\* ------------------------------------------------------------------ claims
\* A Next that returns the batch of the previous Next again finds its view in
\* the cache and leaves every variable as it was. So every state with ret # Nil
\* is a state some Next returned in, and a state predicate over ret and
\* lastBatch speaks of every view Next returns and of the batch it wraps.

\* The projection NewSimpleProjectOp was given is valid: every index < numInputCols.
ValidProjection == \A j \in 1..Len(builtP) : builtP[j] < numInputCols

\* C1: NewSimpleProjectOp returns input itself (no operator, no cache) exactly
\* when len(projection) = numInputCols and projection[i] = i for every i, the
\* empty projection with numInputCols = 0 included; otherwise it returns a new
\* operator with an empty cache and a logging threshold of 128.
C1_BuildElidesExactlyIdentity ==
    [][(op = "unbuilt" /\ op' # "unbuilt") =>
          LET P == arrays["caller"]
              identity == /\ Len(P) = numInputCols
                          /\ \A i \in 0..(Len(P) - 1) : P[i + 1] = i
          IN IF identity
             THEN op' = "input" /\ d' = NoSimpleProjectOp /\ views' = <<>>
             ELSE /\ op' = "simpleProjectOp"
                  /\ DOMAIN d'.batches = {}
                  /\ d'.numBatchesLoggingThreshold = 128]_vars

\* C1 witness: a non-empty identity projection was elided.
C1_Witness ==
    op = "input" /\ numInputCols = Len(builtP) /\ Len(builtP) >= 2

\* C2: with a valid projection P, every view o that Next returns has, for every
\* i < len(P), o.ColVec(i) equal to column P[i] of the batch the upstream
\* returned in that Next: an existing vector of that batch.
C2_ViewSelectsProjectedVectors ==
    (ret # Nil /\ ValidProjection) =>
        \A i \in 0..(Len(builtP) - 1) :
            /\ ColVec(ret, i) = BatchColVec(lastBatch, builtP[i + 1])
            /\ ColVec(ret, i) = <<lastBatch, builtP[i + 1]>>

\* C2 witness: P repeats an index, and the view returned is the first batch's,
\* found in the cache after another batch was pulled, with a column appended.
C2_Witness ==
    /\ ValidProjection
    /\ Len(builtP) = 2 /\ builtP[1] = builtP[2]
    /\ Len(views) = 2 /\ lastBatch = 1 /\ ret = 1
    /\ nAppendCol[1] >= 1
    /\ ColVec(ret, 0) = ColVec(ret, 1)

\* C3 as stated: every view Next returns has Width() = len(P), whatever pulls
\* and AppendCol calls came before.
C3_Original_WidthIsLenP ==
    [][\A batch \in 1..MaxBatches : OpNext(batch) => Width(ret)' = Len(builtP)]_vars

\* C3 amended: every view Next returns has Width() = len(P) plus the number of
\* AppendCol calls made on that view so far; so Width() = len(P) for a view
\* no AppendCol was called on, a view that Next just created in particular.
C3_WidthIsLenPPlusAppended ==
    ret # Nil => Width(ret) = Len(builtP) + nAppendCol[ret]

\* C3 witness: the view returned has had a column appended, and its batch is
\* wider than len(P) + 1.
C3_Witness ==
    /\ ret # Nil
    /\ nAppendCol[ret] = 1
    /\ Width(ret) = Len(builtP) + 1
    /\ inputBatches[lastBatch] > Width(ret)

\* The batch identities the upstream has returned so far.
Seen == {p[1] : p \in history}

\* C4: a Next whose upstream batch is the batch of the Next before it returns
\* the same view, allocating none and leaving the cache as it is; and any two
\* Next calls return the same view exactly when their batches are the same.
C4_SameViewIffSameBatch ==
    [][\A batch \in 1..MaxBatches : OpNext(batch) =>
          /\ batch = lastBatch =>
                /\ ret' = ret
                /\ Len(views') = Len(views)
                /\ Cardinality(DOMAIN d'.batches) = Cardinality(DOMAIN d.batches)
          /\ \A p, q \in history' : (p[2] = q[2]) <=> (p[1] = q[1])]_vars

\* C4 witness: the first batch came back after another one, and its first view
\* with it.
C4_Witness ==
    /\ Cardinality(Seen) = 2
    /\ lastBatch = 1
    /\ ret = d.batches[1]
    /\ ret # d.batches[2]
    /\ <<1, ret>> \in history

\* C5 as stated: a Next whose batch differs from the batch of the Next before
\* it allocates a new view, leaves the view returned before unchanged, and that
\* view stays the one cached for the old batch.
C5_Original_DifferentBatchAllocates ==
    [][\A batch \in 1..MaxBatches :
          (OpNext(batch) /\ lastBatch # Nil /\ batch # lastBatch) =>
              /\ ret' \notin 1..Len(views)
              /\ Len(views') = Len(views) + 1
              /\ views'[ret] = views[ret]
              /\ d'.batches[lastBatch] = ret]_vars

\* C5 amended: a Next whose batch differs from the batch of the Next before it
\* allocates a new view exactly when no earlier Next returned that batch, and
\* otherwise returns the view cached for it; either way the view returned
\* before is unchanged and stays the one cached for, and returned with, the
\* old batch.
C5_DifferentBatchAllocatesIffUnseen ==
    [][\A batch \in 1..MaxBatches :
          (OpNext(batch) /\ lastBatch # Nil /\ batch # lastBatch) =>
              /\ (ret' \notin 1..Len(views)) <=> (batch \notin Seen)
              /\ Len(views') = Len(views) + (IF batch \in Seen THEN 0 ELSE 1)
              /\ \A p \in history : p[1] = batch => ret' = p[2]
              /\ views'[ret] = views[ret]
              /\ d'.batches[lastBatch] = ret]_vars

\* C5 witness: two batches were pulled and the first came back; each view still
\* wraps its own batch.
C5_Witness ==
    /\ history = {<<1, 1>>, <<2, 2>>}
    /\ lastBatch = 1
    /\ views[1].Batch = 1
    /\ views[2].Batch = 2
    /\ Len(views) = 2

\* C6: the cache holds one view per batch identity the upstream has returned,
\* distinct views for distinct identities; no entry is removed or replaced; a
\* Next that misses grows it by one entry and a Next that hits leaves it alone.
C6_CacheIsOneViewPerSeenBatch ==
    [][/\ DOMAIN d'.batches = Seen'
       /\ Cardinality(DOMAIN d'.batches) = Cardinality(Seen')
       /\ \A a, b \in DOMAIN d'.batches : a # b => d'.batches[a] # d'.batches[b]
       /\ \A b \in DOMAIN d.batches :
             b \in DOMAIN d'.batches /\ d'.batches[b] = d.batches[b]
       /\ \A batch \in 1..MaxBatches : OpNext(batch) =>
             IF batch \in DOMAIN d.batches
             THEN d'.batches = d.batches
             ELSE /\ Cardinality(DOMAIN d'.batches) = Cardinality(DOMAIN d.batches) + 1
                  /\ batch \in DOMAIN d'.batches]_vars

\* C6 witness: the cache holds two entries and the last Next hit the older one.
C6_Witness ==
    /\ Cardinality(DOMAIN d.batches) = 2
    /\ Seen = {1, 2}
    /\ lastBatch = 1
    /\ inputInitialized

\* The cache sizes a log line is due at: 128 times a power of two.
RECURSIVE IsLoggingSize(_)
IsLoggingSize(size) ==
    \/ size = 128
    \/ size > 128 /\ size % 2 = 0 /\ IsLoggingSize(size \div 2)

\* C7: with verbosity enabled the lines logged so far are exactly one per cache
\* size 128, 256, 512, ... reached so far, each reporting that size, in order.
\* (The cache size changes only on a miss, so no hit logs a line.)
C7_LogsExactlyAtDoublingSizes ==
    (op = "simpleProjectOp" /\ verbose) =>
        logged = SelectSeq([s \in 1..Cardinality(DOMAIN d.batches) |-> s], IsLoggingSize)

\* C7 witness: the cache has grown past 256 entries and two lines were logged.
C7_Witness ==
    /\ verbose
    /\ Cardinality(DOMAIN d.batches) > 256
    /\ logged = <<128, 256>>

C9_ColVecsAlwaysPanics ==
    [][\A v \in 1..MaxBatches : ColVecs(v) =>
          /\ failure' = "VectorizedInternalPanic"
          /\ views' = views
          /\ d' = d
          /\ inputBatches' = inputBatches]_vars

\* C9 witness: the pipeline ended in the panic with a view that had a column
\* appended and a view that had not.
C9_Witness ==
    /\ failure = "VectorizedInternalPanic"
    /\ \E v \in 1..Len(views) : nAppendCol[v] >= 1
    /\ \E v \in 1..Len(views) : nAppendCol[v] = 0

\* C10: the operator's projection is the caller's buffer as it was at build
\* time, whatever the caller writes to the buffer afterwards, and every view
\* starts with those indices.
C10_ProjectionIsBuildTimeCopy ==
    op = "simpleProjectOp" =>
        /\ Slice(d.projection) = builtP
        /\ \A v \in 1..Len(views) :
              /\ Len(views[v].projection) >= Len(builtP)
              /\ SubSeq(views[v].projection, 1, Len(builtP)) = builtP

\* C10 witness: the caller's buffer no longer holds what it held at build time,
\* and the newest view has exactly the build-time projection.
C10_Witness ==
    /\ op = "simpleProjectOp"
    /\ arrays["caller"] # builtP
    /\ Len(views) >= 1
    /\ views[Len(views)].projection = builtP
    /\ views[Len(views)].projection # arrays["caller"]

\* C11: a Next that finds its batch in the cache returns the cached view with
\* its projection list as it stood: with k AppendCol calls made on it, its
\* width is len(P) + k and its last k entries are the appended indices,
\* whatever other batches were pulled in between.
C11_HitKeepsAppendedColumns ==
    [][\A batch \in 1..MaxBatches :
          (OpNext(batch) /\ batch \in DOMAIN d.batches) =>
              \A v \in {d.batches[batch]}, k \in {nAppendCol[d.batches[batch]]} :
                 /\ ret' = v
                 /\ views'[v].projection = views[v].projection
                 /\ Width(v)' = Len(builtP) + k
                 /\ SubSeq(views'[v].projection, 1, Len(builtP)) = builtP
                 /\ \A j \in 1..k :
                       views'[v].projection[Len(builtP) + j] = numInputCols + j - 1]_vars

\* C11 witness: the first batch came back after another one, and its view came
\* back with the two columns appended through it.
C11_Witness ==
    /\ Len(views) = 2
    /\ lastBatch = 1 /\ ret = 1
    /\ nAppendCol[1] = 2
    /\ Width(1) = Len(builtP) + 2
    /\ Width(2) = Len(builtP)

\* C12: AppendCol on a view changes that view's projection list and its wrapped
\* batch and nothing else: not the operator (its projection list, its cache),
\* not another view, not another batch; and a view that a later Next creates
\* on a miss has exactly the operator's projection P, width len(P).
C12_AppendColTouchesOneView ==
    [][/\ \A v \in 1..MaxBatches : AppendCol(v) =>
             /\ d' = d
             /\ Slice(d.projection)' = Slice(d.projection)
             /\ Len(views') = Len(views)
             /\ views'[v].Batch = views[v].Batch
             /\ views'[v].projection # views[v].projection
             /\ \A u \in (1..Len(views)) \ {v} : views'[u] = views[u]
             /\ \A b \in (1..Len(inputBatches)) \ {views[v].Batch} :
                   inputBatches'[b] = inputBatches[b]
       /\ \A batch \in 1..MaxBatches :
             (OpNext(batch) /\ batch \notin DOMAIN d.batches) =>
                 /\ views'[ret'].projection = builtP
                 /\ Len(views'[ret'].projection) = Len(builtP)]_vars

\* C12 witness: two columns were appended through the first view, and the
\* second view, returned last, has the operator's projection and nothing more.
C12_Witness ==
    /\ Len(views) = 2
    /\ nAppendCol = <<2, 0>>
    /\ ret = 2
    /\ views[2].projection = builtP
    /\ Slice(d.projection) = builtP
    /\ Width(1) = Width(2) + 2

\* C13: with a valid projection and upstream batches that are at least
\* numInputCols wide and never lose a column, every index in the projection
\* list of every cached view is below the width of the batch the view wraps,
\* so ColVec(i) is a column of that batch for every i < Width(): after
\* AppendCol, after a hit, and after the upstream has widened the batch.
C13_ProjectionWithinWrappedBatch ==
    (/\ op = "simpleProjectOp"
     /\ ValidProjection
     /\ ~widthDecreased
     /\ \A b \in 1..Len(inputBatches) : inputBatches[b] >= numInputCols) =>
        \A b \in DOMAIN d.batches :
            /\ views[d.batches[b]].Batch # Nil
            /\ \A i \in 0..(Width(d.batches[b]) - 1) :
                  /\ views[d.batches[b]].projection[i + 1]
                        < inputBatches[views[d.batches[b]].Batch]
                  /\ ColVec(d.batches[b], i) # IndexOutOfRange

\* C13 witness: a column was appended through the view and the upstream then
\* widened the batch further; the view's last index is not the batch's last
\* column any more.
C13_Witness ==
    /\ ValidProjection
    /\ ~widthDecreased
    /\ lastBatch = 1 /\ ret = 1
    /\ nAppendCol[1] >= 1
    /\ Width(1) = Len(builtP) + nAppendCol[1]
    /\ inputBatches[1] > views[1].projection[Width(1)] + 1
    /\ inputBatches[1] > numInputCols + nAppendCol[1]

\* C14: every Next calls the upstream's Next once and returns the view cached
\* for, and wrapping, the batch that call returned, a zero-length batch
\* included; Next can be called again whatever it returned; and Init forwards
\* to the upstream and changes nothing of the operator or its views.
C14_NextWrapsWhateverUpstreamReturns ==
    [][/\ \A batch \in 1..MaxBatches : OpNext(batch) =>
             /\ inputNextCalls' = 1
             /\ lastBatch' = batch
             /\ views'[ret'].Batch = batch
             /\ d'.batches[batch] = ret'
             /\ lastZeroLength' = inputExhausted
             /\ failure' = "none"
       /\ (op = "simpleProjectOp" /\ failure = "none") =>
             \A batch \in 1..MaxBatches :
                 batch <= Len(inputBatches) + 1 => ENABLED OpNext(batch)
       /\ OpInit =>
             /\ inputInitialized'
             /\ d' = d
             /\ views' = views
             /\ inputBatches' = inputBatches
             /\ ret' = ret /\ lastBatch' = lastBatch]_vars

\* C14 witness: the upstream ran out of rows, and the last Next returned the
\* second view, of length 0, wrapping the second batch and cached for it.
C14_Witness ==
    /\ inputExhausted
    /\ lastZeroLength
    /\ inputInitialized
    /\ lastBatch = 2 /\ ret = 2
    /\ views[2].Batch = 2
    /\ d.batches[2] = 2
    /\ inputNextCalls = 1

\* C15: the threshold is doubled whether or not log.V(1) is on: with logging
\* on and with logging off alike, the threshold is the least of 128, 256,
\* 512, ... above the cache size (so 128 times a power of two and greater
\* than the size), and the cache maps each batch returned so far to the view
\* allocated for it, in the order of first return; with logging off no line
\* is logged.
C15_ThresholdIndependentOfVerbosity ==
    op = "simpleProjectOp" =>
        /\ IsLoggingSize(d.numBatchesLoggingThreshold)
        /\ d.numBatchesLoggingThreshold > Cardinality(DOMAIN d.batches)
        /\ \/ d.numBatchesLoggingThreshold = 128
           \/ d.numBatchesLoggingThreshold \div 2 <= Cardinality(DOMAIN d.batches)
        /\ DOMAIN d.batches = Seen
        /\ \A b \in DOMAIN d.batches : d.batches[b] = b
        /\ ~verbose => logged = <<>>

\* C15 witness: with logging off the cache has grown past 256 entries and the
\* threshold has been doubled twice.
C15_Witness ==
    /\ op = "simpleProjectOp"
    /\ ~verbose
    /\ Cardinality(DOMAIN d.batches) > 256
    /\ d.numBatchesLoggingThreshold = 512
    /\ logged = <<>>

\* C16: after every Next each cached view wraps the batch it is cached under,
\* and each view is cached under the batch it wraps; so the assignment of
\* Batch on a hit assigns what the view holds already, and the view returned
\* wraps the batch of its Next and no other.
C16_CachedViewWrapsItsKey ==
    op = "simpleProjectOp" =>
        /\ \A b \in DOMAIN d.batches : views[d.batches[b]].Batch = b
        /\ \A v \in 1..Len(views) :
              /\ views[v].Batch \in DOMAIN d.batches
              /\ d.batches[views[v].Batch] = v
        /\ \A b \in DOMAIN d.batches :
              Repoint(views, d.batches[b], b) = views
        /\ ret # Nil => views[ret].Batch = lastBatch

\* C16 witness: both batches are cached, a column was appended through each
\* view, and the older batch was returned last.
C16_Witness ==
    /\ DOMAIN d.batches = {1, 2}
    /\ nAppendCol = <<1, 1>>
    /\ lastBatch = 1
    /\ views[ret].Batch = 1
    /\ views[2].Batch = 2

====
